---- MODULE Spec2Model ----
(***************************************************************************)
(* Model of src/main.py: one run of the backup helper is                   *)
(*   setup -> find_backup_folder -> create_backup_name -> make_archive     *)
(*         -> upload_zipped_folder -> cleanup (clean_temp_folder, then     *)
(*            trash_backup_folder when the flag is set).                   *)
(* The file system (parent directory, scratch directory, trash) and the    *)
(* bucket are shared state; every run has its own locals.  Spec is the     *)
(* program as it is meant to be used (a single run); SpecConc starts two   *)
(* runs of the same program on the same directories.                       *)
(***************************************************************************)
EXTENDS Integers, Sequences, FiniteSets, TLC

\* ---------------------------------------------------------------- bounds
MaxEntries == 3      \* entries of the parent directory
MaxMtime == 3        \* modification timestamps are 1..MaxMtime
MaxClock == 2        \* wall clock seconds are 1..MaxClock
MaxConcEntries == 1  \* entries of the parent directory when two runs race

\* ------------------------------------------------------------- constants
BACKUP_PREFIX == "backup"
MachineName == "box"                  \* CONFIG['machine']['name']
BackupParentDir == "/data/backups"    \* CONFIG['machine']['backup_folder_path']
None == "None"                        \* Python's None, for paths and names
NoneTs == -1                          \* Python's None, for newest_timestamp
Runs == {1, 2}

VARIABLES
    entries,               \* os.scandir(backup_parent_dir), in scan order: [is_dir, mtime]
    dir_state,             \* entry index -> "original" | "trash" | "deleted"
    temp_exists,           \* whether the scratch directory exists
    scratch,               \* scratch directory: name -> [kind, body]
    bucket,                \* the remote bucket: key -> body
    now,                   \* the wall clock, in seconds
    pc,                    \* each run's position in main()
    TRASH_BACKUP_FOLDER,   \* the global flag, per process
    backup_folder_path,    \* main's local, per run
    backup_base_name,      \* main's local, per run
    zip_files,             \* clean_temp_folder's list, per run
    zi,                    \* clean_temp_folder's loop position, per run
    puts,                  \* the upload_file calls that returned, per run
    error                  \* the exception that ended the run, per run

vars == <<entries, dir_state, temp_exists, scratch, bucket, now, pc,
          TRASH_BACKUP_FOLDER, backup_folder_path, backup_base_name,
          zip_files, zi, puts, error>>

\* ---------------------------------------------------------------- helpers
Range(s) == {s[i] : i \in 1..Len(s)}

\* str.endswith
endswith(s, suffix) ==
    /\ Len(s) >= Len(suffix)
    /\ SubSeq(s, Len(s) - Len(suffix) + 1, Len(s)) = suffix

\* the path of the i-th entry of the parent directory (f.path)
PathOf(i) == BackupParentDir \o "/run_" \o ToString(i)

\* the entry a path names
IndexOf(p) == CHOOSE i \in 1..Len(entries) : PathOf(i) = p

\* os.path.getmtime
getmtime(p) == entries[IndexOf(p)].mtime

\* faulty variant of the loop: "<" for ">", which keeps the oldest directory
RECURSIVE latest_loop_oldest(_, _, _, _)
latest_loop_oldest(paths, i, ret_path, newest_timestamp) ==
    IF i > Len(paths) THEN ret_path
    ELSE LET p == paths[i]
             modified_timestamp == getmtime(p)
         IN  IF newest_timestamp = NoneTs \/ modified_timestamp < newest_timestamp
             THEN latest_loop_oldest(paths, i + 1, p, modified_timestamp)
             ELSE latest_loop_oldest(paths, i + 1, ret_path, newest_timestamp)

\* faulty variant of the loop: ">=" for ">", which lets a later tie win
RECURSIVE latest_loop_last_tie(_, _, _, _)
latest_loop_last_tie(paths, i, ret_path, newest_timestamp) ==
    IF i > Len(paths) THEN ret_path
    ELSE LET p == paths[i]
             modified_timestamp == getmtime(p)
         IN  IF newest_timestamp = NoneTs \/ modified_timestamp >= newest_timestamp
             THEN latest_loop_last_tie(paths, i + 1, p, modified_timestamp)
             ELSE latest_loop_last_tie(paths, i + 1, ret_path, newest_timestamp)

\* the loop of find_latest_modified_directory, from position i on
RECURSIVE latest_loop(_, _, _, _)
latest_loop(paths, i, ret_path, newest_timestamp) ==
    IF i > Len(paths) THEN ret_path
    ELSE LET p == paths[i]
             modified_timestamp == getmtime(p)
         IN  IF newest_timestamp = NoneTs \/ modified_timestamp > newest_timestamp
             THEN latest_loop(paths, i + 1, p, modified_timestamp)
             ELSE latest_loop(paths, i + 1, ret_path, newest_timestamp)

find_latest_modified_directory(paths) == latest_loop(paths, 1, None, NoneTs)

\* faulty variant of the filter: every entry counts, plain files included
is_dir_any(i) == TRUE

\* the filter of find_backup_folder's comprehension: f.is_dir()
is_dir(i) == entries[i].is_dir

\* [f.path for f in os.scandir(backup_parent_dir) if f.is_dir()]
RECURSIVE scan_from(_)
scan_from(i) ==
    IF i > Len(entries) THEN <<>>
    ELSE IF dir_state[i] = "original" /\ is_dir(i)
         THEN <<PathOf(i)>> \o scan_from(i + 1)
         ELSE scan_from(i + 1)

backup_folders == scan_from(1)

\* time.strftime("%Y%m%d-%H%M%S"): one string per second of the clock
strftime(t) == ToString(t)

create_backup_name(t) == BACKUP_PREFIX \o "_" \o strftime(t)

\* the file shutil.make_archive(base, 'zip', root) writes, relative to temp/
archive_file(base_name) == base_name \o ".zip"

\* the file main hands to upload_zipped_folder, relative to temp/
uploaded_file(base_name) == base_name \o ".zip"

\* faulty variant of the key: the extension is left out
s3_key_no_ext(base_name) == MachineName \o "/" \o base_name

\* s3_key of upload_zipped_folder
s3_key(base_name) == MachineName \o "/" \o base_name \o ".zip"

\* the contents of a zip archive of the directory at path p
Zip(p) == "zip:" \o p

\* what an interrupted make_archive leaves behind
Partial(p) == "partial:" \o p

\* faulty variant of the sweep's filter: every entry of the directory
zip_names_all(dir) == DOMAIN dir

\* faulty variant of the sweep's filter: the suffix is compared in upper case
zip_names_upper(dir) == {f \in DOMAIN dir : endswith(f, ".ZIP")}

\* zip_files of clean_temp_folder, as a set
zip_names(dir) == {f \in DOMAIN dir : endswith(f, ".zip")}

\* the orders os.listdir may return a set of names in
Orders(S) == {s \in [1..Cardinality(S) -> S] : Range(s) = S}

\* a directory with one entry removed / written
Without(dir, f) == [g \in DOMAIN dir \ {f} |-> dir[g]]
With(dir, f, v) == [g \in DOMAIN dir \cup {f} |-> IF g = f THEN v ELSE dir[g]]

\* faulty variant of the trashing: shutil.rmtree for send2trash
rmtree(i) == [dir_state EXCEPT ![i] = "deleted"]

\* send2trash: the entry moves to the platform's trash
send2trash(i) == [dir_state EXCEPT ![i] = "trash"]

\* faulty variant of main: the upload's exception is swallowed
after_upload_swallowed(ok) == "clean_list"

\* faulty variant of cleanup: the source is trashed without the sweep before it
after_upload_trash_first(ok) == IF ok THEN "trash" ELSE "failed"

\* where main goes when upload_zipped_folder returns or raises
after_upload(ok) == IF ok THEN "clean_list" ELSE "failed"

\* faulty variant of cleanup's test: the flag is ignored
should_trash_always(r) == TRUE

\* the test of cleanup: if TRASH_BACKUP_FOLDER
should_trash(r) == TRASH_BACKUP_FOLDER[r]

\* ------------------------------------------------------------------ Init
EmptyDir == [f \in {} |-> f]

\* a directory with any modification time, or a plain file (whose time the
\* program never reads)
EntrySet ==
    [is_dir : {TRUE}, mtime : 1..MaxMtime] \cup {[is_dir |-> FALSE, mtime |-> 1]}

Listings == UNION {[1..n -> EntrySet] : n \in 0..MaxEntries}

\* what earlier runs and the operator may have left in the scratch directory
Strays ==
    [f \in {"backup_0.zip", "notes.txt", "photos.zip"} |->
        CASE f = "backup_0.zip" -> [kind |-> "file", body |-> Zip(BackupParentDir \o "/run_0")]
          [] f = "notes.txt"    -> [kind |-> "file", body |-> "notes"]
          [] f = "photos.zip"   -> [kind |-> "dir",  body |-> ""]]

\* the parent directories two racing runs are started on: directories only
ConcListings ==
    UNION {[1..n -> [is_dir : {TRUE}, mtime : 1..MaxMtime]] : n \in 1..MaxConcEntries}

\* the names two racing runs may find in the scratch directory
ConcStrayNames == {"backup_0.zip", "notes.txt"}

InitFiles(listings, strays) ==
    /\ entries \in listings
    /\ dir_state = [i \in 1..Len(entries) |-> "original"]
    /\ temp_exists \in BOOLEAN
    /\ \E S \in SUBSET strays :
          /\ (~temp_exists => S = {})
          /\ scratch = [f \in S |-> Strays[f]]
    /\ bucket = EmptyDir
    /\ now = 1
    /\ TRASH_BACKUP_FOLDER = [r \in Runs |-> FALSE]
    /\ backup_folder_path = [r \in Runs |-> None]
    /\ backup_base_name = [r \in Runs |-> None]
    /\ zip_files = [r \in Runs |-> <<>>]
    /\ zi = [r \in Runs |-> 1]
    /\ puts = [r \in Runs |-> <<>>]
    /\ error = [r \in Runs |-> None]

\* one invocation of the program
Init ==
    /\ InitFiles(Listings, DOMAIN Strays)
    /\ pc = [r \in Runs |-> IF r = 1 THEN "setup" ELSE "absent"]

\* two invocations of the program, started on the same directories
ConcInit ==
    /\ InitFiles(ConcListings, ConcStrayNames)
    /\ pc = [r \in Runs |-> "setup"]

\* --------------------------------------------------------------- actions
\* setup(): setup_argument_parsing sets the flag, setup_temp_folder creates temp/
Setup(r) ==
    /\ pc[r] = "setup"
    /\ \E flag \in BOOLEAN :
          TRASH_BACKUP_FOLDER' = [TRASH_BACKUP_FOLDER EXCEPT ![r] = flag]
    /\ temp_exists' = TRUE
    /\ pc' = [pc EXCEPT ![r] = "find_backup_folder"]
    /\ UNCHANGED <<entries, dir_state, scratch, bucket, now, backup_folder_path,
                   backup_base_name, zip_files, zi, puts, error>>

\* backup_folder_path = find_backup_folder()
FindBackupFolder(r) ==
    /\ pc[r] = "find_backup_folder"
    /\ IF Len(backup_folders) = 0
       THEN /\ pc' = [pc EXCEPT ![r] = "failed"]
            /\ error' = [error EXCEPT ![r] = "NoCandidatesError"]
            /\ UNCHANGED backup_folder_path
       ELSE /\ backup_folder_path' =
                  [backup_folder_path EXCEPT
                      ![r] = find_latest_modified_directory(backup_folders)]
            /\ pc' = [pc EXCEPT ![r] = "create_backup_name"]
            /\ UNCHANGED error
    /\ UNCHANGED <<entries, dir_state, temp_exists, scratch, bucket, now,
                   TRASH_BACKUP_FOLDER, backup_base_name, zip_files, zi, puts>>

\* backup_base_name = create_backup_name()
CreateBackupName(r) ==
    /\ pc[r] = "create_backup_name"
    /\ backup_base_name' = [backup_base_name EXCEPT ![r] = create_backup_name(now)]
    /\ pc' = [pc EXCEPT ![r] = "make_archive"]
    /\ UNCHANGED <<entries, dir_state, temp_exists, scratch, bucket, now,
                   TRASH_BACKUP_FOLDER, backup_folder_path, zip_files, zi, puts, error>>

\* shutil.make_archive(temp_zip_path, 'zip', backup_folder_path): it writes the
\* archive, or raises with or without a partial file; with the source directory
\* gone it raises or, on newer interpreters, writes an empty archive
MakeArchive(r) ==
    /\ pc[r] = "make_archive"
    /\ LET p == backup_folder_path[r]
           f == archive_file(backup_base_name[r])
           outcomes == IF dir_state[IndexOf(p)] = "original"
                       THEN {"ok", "error", "partial"}
                       ELSE {"error", "empty"}
       IN  \E o \in outcomes :
             /\ scratch' =
                   CASE o = "ok"      -> With(scratch, f, [kind |-> "file", body |-> Zip(p)])
                     [] o = "empty"   -> With(scratch, f, [kind |-> "file", body |-> Zip("")])
                     [] o = "partial" -> With(scratch, f, [kind |-> "file", body |-> Partial(p)])
                     [] o = "error"   -> scratch
             /\ IF o \in {"ok", "empty"}
                THEN /\ pc' = [pc EXCEPT ![r] = "upload"]
                     /\ UNCHANGED error
                ELSE /\ pc' = [pc EXCEPT ![r] = "failed"]
                     /\ error' = [error EXCEPT ![r] = "ArchiveError"]
    /\ UNCHANGED <<entries, dir_state, temp_exists, bucket, now, TRASH_BACKUP_FOLDER,
                   backup_folder_path, backup_base_name, zip_files, zi, puts>>

\* upload_zipped_folder(backup_base_name, f"{temp_zip_path}.zip"): one
\* upload_file call, which returns or raises
Upload(r) ==
    /\ pc[r] = "upload"
    /\ LET f == uploaded_file(backup_base_name[r])
           key == s3_key(backup_base_name[r])
           readable == f \in DOMAIN scratch /\ scratch[f].kind = "file"
           outcomes == IF readable THEN BOOLEAN ELSE {FALSE}
       IN  \E ok \in outcomes :
             /\ pc' = [pc EXCEPT ![r] = after_upload(ok)]
             /\ IF ok
                THEN /\ bucket' = With(bucket, key, scratch[f].body)
                     /\ puts' = [puts EXCEPT ![r] =
                           Append(@, [file |-> f, key |-> key, body |-> scratch[f].body])]
                     /\ UNCHANGED error
                ELSE /\ error' = [error EXCEPT ![r] = "UploadError"]
                     /\ UNCHANGED <<bucket, puts>>
    /\ UNCHANGED <<entries, dir_state, temp_exists, scratch, now, TRASH_BACKUP_FOLDER,
                   backup_folder_path, backup_base_name, zip_files, zi>>

\* clean_temp_folder: zip_files = [f for f in os.listdir(temp_dir) if f.endswith('.zip')]
CleanList(r) ==
    /\ pc[r] = "clean_list"
    /\ \E s \in Orders(zip_names(scratch)) :
          zip_files' = [zip_files EXCEPT ![r] = s]
    /\ zi' = [zi EXCEPT ![r] = 1]
    /\ pc' = [pc EXCEPT ![r] = "clean_remove"]
    /\ UNCHANGED <<entries, dir_state, temp_exists, scratch, bucket, now,
                   TRASH_BACKUP_FOLDER, backup_folder_path, backup_base_name, puts, error>>

\* clean_temp_folder: one os.remove of the loop; it raises on a name that is
\* gone or that is a directory
CleanRemove(r) ==
    /\ pc[r] = "clean_remove"
    /\ zi[r] <= Len(zip_files[r])
    /\ LET f == zip_files[r][zi[r]]
       IN  IF f \in DOMAIN scratch /\ scratch[f].kind = "file"
           THEN /\ scratch' = Without(scratch, f)
                /\ zi' = [zi EXCEPT ![r] = @ + 1]
                /\ UNCHANGED <<pc, error, zip_files>>
           ELSE /\ pc' = [pc EXCEPT ![r] = "failed"]
                /\ error' = [error EXCEPT ![r] = "OSError"]
                /\ zip_files' = [zip_files EXCEPT ![r] = <<>>]
                /\ zi' = [zi EXCEPT ![r] = 1]
                /\ UNCHANGED scratch
    /\ UNCHANGED <<entries, dir_state, temp_exists, bucket, now, TRASH_BACKUP_FOLDER,
                   backup_folder_path, backup_base_name, puts>>

\* clean_temp_folder returns (its locals are gone) to cleanup, which tests the flag
CleanReturn(r) ==
    /\ pc[r] = "clean_remove"
    /\ zi[r] > Len(zip_files[r])
    /\ pc' = [pc EXCEPT ![r] = IF should_trash(r) THEN "trash" ELSE "done"]
    /\ zip_files' = [zip_files EXCEPT ![r] = <<>>]
    /\ zi' = [zi EXCEPT ![r] = 1]
    /\ UNCHANGED <<entries, dir_state, temp_exists, scratch, bucket, now,
                   TRASH_BACKUP_FOLDER, backup_folder_path, backup_base_name,
                   puts, error>>

\* trash_backup_folder(backup_folder_path): send2trash moves the directory or raises
TrashBackupFolder(r) ==
    /\ pc[r] = "trash"
    /\ LET i == IndexOf(backup_folder_path[r])
           outcomes == IF dir_state[i] = "original" THEN BOOLEAN ELSE {FALSE}
       IN  \E ok \in outcomes :
             IF ok
             THEN /\ dir_state' = send2trash(i)
                  /\ pc' = [pc EXCEPT ![r] = "done"]
                  /\ UNCHANGED error
             ELSE /\ pc' = [pc EXCEPT ![r] = "failed"]
                  /\ error' = [error EXCEPT ![r] = "TrashError"]
                  /\ UNCHANGED dir_state
    /\ UNCHANGED <<entries, temp_exists, scratch, bucket, now, TRASH_BACKUP_FOLDER,
                   backup_folder_path, backup_base_name, zip_files, zi, puts>>

\* a second of wall-clock time passes
Tick ==
    /\ now < MaxClock
    /\ now' = now + 1
    /\ UNCHANGED <<entries, dir_state, temp_exists, scratch, bucket, pc,
                   TRASH_BACKUP_FOLDER, backup_folder_path, backup_base_name,
                   zip_files, zi, puts, error>>

Next ==
    \/ \E r \in Runs :
          \/ Setup(r)
          \/ FindBackupFolder(r)
          \/ CreateBackupName(r)
          \/ MakeArchive(r)
          \/ Upload(r)
          \/ CleanList(r)
          \/ CleanRemove(r)
          \/ CleanReturn(r)
          \/ TrashBackupFolder(r)
    \/ Tick

Spec == Init /\ [][Next]_vars

SpecConc == ConcInit /\ [][Next]_vars

\* ------------------------------------------------- vocabulary of the claims
\* the immediate subdirectories of the parent directory, by position in the scan
Candidates == {i \in 1..Len(entries) : entries[i].is_dir}

\* the greatest modification timestamp among the candidates
MaxCandidateMtime ==
    CHOOSE m \in {entries[i].mtime : i \in Candidates} :
        \A j \in Candidates : entries[j].mtime <= m

\* the candidates that carry it
Newest == {i \in Candidates : entries[i].mtime = MaxCandidateMtime}

FirstOf(S) == CHOOSE i \in S : \A j \in S : i <= j

DistinctMtimes ==
    \A i, j \in Candidates : i # j => entries[i].mtime # entries[j].mtime

IsZipName(f) == endswith(f, ".zip")

NoZipIn(dir) == \A f \in DOMAIN dir : ~IsZipName(f)

\* the scratch archive and the object key that belong to run r's backup name
ArchiveName(r) == backup_base_name[r] \o ".zip"
ObjectKey(r) == MachineName \o "/" \o backup_base_name[r] \o ".zip"

AtOriginalPath(p) == dir_state[IndexOf(p)] = "original"

C8_TieFirstScanned ==
    \A r \in Runs :
        (backup_folder_path[r] # None /\ Cardinality(Newest) >= 2) =>
            backup_folder_path[r] = PathOf(FirstOf(Newest))

\* a tie for the greatest time between two candidates, after an older candidate
C8_Witness ==
    /\ backup_folder_path[1] # None
    /\ Cardinality(Newest) >= 2
    /\ FirstOf(Newest) > FirstOf(Candidates)

\* ---------------------------------------------------------------------- C2
C2_AfterNoCandidates ==
    \A r \in Runs :
        error[r] = "NoCandidatesError" =>
            /\ pc'[r] = "failed"
            /\ UNCHANGED <<scratch, bucket, dir_state, puts, backup_folder_path>>

C2_FindStep ==
    \A r \in Runs :
        (pc[r] = "find_backup_folder" /\ pc'[r] # "find_backup_folder"
            /\ Candidates = {}) =>
            /\ pc'[r] = "failed"
            /\ error'[r] = "NoCandidatesError"
            /\ backup_folder_path'[r] = None
            /\ UNCHANGED <<scratch, bucket, dir_state, puts>>

\* C2: with no immediate subdirectory in the parent directory (plain files do
\* not count), find_backup_folder raises NoCandidatesError and returns no
\* path, and the run ends there: nothing is archived, uploaded, swept or trashed.
C2_NoCandidates ==
    /\ [](\A r \in Runs :
            error[r] = "NoCandidatesError" =>
                /\ pc[r] = "failed"
                /\ Candidates = {}
                /\ backup_folder_path[r] = None
                /\ puts[r] = <<>>
                /\ bucket = EmptyDir
                /\ \A f \in DOMAIN scratch : f \in DOMAIN Strays /\ scratch[f] = Strays[f]
                /\ \A i \in 1..Len(entries) : dir_state[i] = "original")
    /\ [][C2_FindStep /\ C2_AfterNoCandidates]_vars

\* the run failed on a parent directory that holds plain files only
C2_Witness ==
    /\ error[1] = "NoCandidatesError"
    /\ Len(entries) >= 2
    /\ "backup_0.zip" \in DOMAIN scratch

\* ---------------------------------------------------------------------- C3
\* C3: when the upload raises, the run has failed after that one attempt (no
\* upload is pending or recorded), the archive this run wrote is still in the
\* scratch directory, and the source directory is at its original path.
C3_UploadFailure ==
    \A r \in Runs :
        error[r] = "UploadError" =>
            /\ pc[r] = "failed"
            /\ ~ENABLED Upload(r)
            /\ puts[r] = <<>>
            /\ ArchiveName(r) \in DOMAIN scratch
            /\ scratch[ArchiveName(r)].body = Zip(backup_folder_path[r])
            /\ AtOriginalPath(backup_folder_path[r])

\* the upload raised in a run started with the trash flag
C3_Witness ==
    /\ error[1] = "UploadError"
    /\ TRASH_BACKUP_FOLDER[1]
    /\ "backup_0.zip" \in DOMAIN scratch

\* ---------------------------------------------------------------------- C4
C4_SweepStep ==
    \A r \in Runs :
        /\ pc[r] \in {"clean_list", "clean_remove"} =>
              /\ DOMAIN scratch' \subseteq DOMAIN scratch
              /\ \A f \in DOMAIN scratch :
                    ~IsZipName(f) => f \in DOMAIN scratch' /\ scratch'[f] = scratch[f]
        /\ (pc[r] = "clean_remove" /\ pc'[r] \in {"trash", "done"}) =>
              NoZipIn(scratch')

C5_UntouchedWithoutFlag ==
    \A r \in Runs :
        (pc[r] \notin {"absent", "setup"} /\ ~TRASH_BACKUP_FOLDER[r]) =>
            \A i \in 1..Len(entries) : dir_state[i] = "original"

\* a run without the flag completed normally
C5_Witness ==
    /\ pc[1] = "done"
    /\ ~TRASH_BACKUP_FOLDER[1]
    /\ AtOriginalPath(backup_folder_path[1])

\* ---------------------------------------------------------------------- C6
\* C6: no directory is ever permanently deleted; a directory is in the trash
\* only if a run started with the flag selected it and that run's upload of
\* its archive has returned; and a run with the flag that completes normally
\* has moved its source directory to the trash.
C6_TrashOnlyAfterUpload ==
    /\ \A i \in 1..Len(entries) :
          /\ dir_state[i] # "deleted"
          /\ dir_state[i] = "trash" =>
                \E r \in Runs :
                    /\ TRASH_BACKUP_FOLDER[r]
                    /\ backup_folder_path[r] = PathOf(i)
                    /\ Len(puts[r]) = 1
                    /\ puts[r][1].body = Zip(PathOf(i))
                    /\ ObjectKey(r) \in DOMAIN bucket
    /\ \A r \in Runs :
          (pc[r] = "done" /\ TRASH_BACKUP_FOLDER[r]) =>
              dir_state[IndexOf(backup_folder_path[r])] = "trash"

\* a run with the flag completed normally
C6_Witness ==
    /\ pc[1] = "done"
    /\ TRASH_BACKUP_FOLDER[1]
    /\ dir_state[IndexOf(backup_folder_path[1])] = "trash"

\* ---------------------------------------------------------------------- C7
\* C7: between archiving and upload the scratch archive is <backup_name>.zip
\* and holds the selected directory; a run that completed normally made
\* exactly one upload, of that file, under <machine_name>/<backup_name>.zip,
\* with backup_name = backup_<timestamp>, and the bucket holds it.
C7_OneObject ==
    \A r \in Runs :
        /\ pc[r] = "upload" =>
              /\ ArchiveName(r) \in DOMAIN scratch
              /\ scratch[ArchiveName(r)] =
                    [kind |-> "file", body |-> Zip(backup_folder_path[r])]
        /\ pc[r] = "done" =>
              /\ \E t \in 1..MaxClock :
                    backup_base_name[r] = "backup" \o "_" \o ToString(t)
              /\ \E i \in Candidates : backup_folder_path[r] = PathOf(i)
              /\ puts[r] = <<[file |-> ArchiveName(r), key |-> ObjectKey(r),
                              body |-> Zip(backup_folder_path[r])]>>
              /\ DOMAIN bucket = {ObjectKey(r)}
              /\ bucket[ObjectKey(r)] = Zip(backup_folder_path[r])

\* a run completed normally with a name taken after the clock moved
C7_Witness ==
    /\ pc[1] = "done"
    /\ Len(puts[1]) = 1
    /\ backup_base_name[1] = "backup_2"

\* --------------------------------------------------------------------- C10
C10_ArchiveFailStep ==
    \A r \in Runs :
        /\ (pc[r] = "make_archive" /\ pc'[r] = "failed") =>
              /\ error'[r] = "ArchiveError"
              /\ \A f \in DOMAIN scratch : IsZipName(f) => f \in DOMAIN scratch'
        /\ error[r] = "ArchiveError" =>
              /\ pc'[r] = "failed"
              /\ UNCHANGED <<scratch, bucket, dir_state, puts>>

\* C10: trashing is attempted only with the scratch directory swept; when it
\* fails the run has failed, the scratch directory holds no .zip, the uploaded
\* object is in the bucket and the source directory is at its original path;
\* when archiving fails the run ends there with every .zip that was in the
\* scratch directory still in it.
C10_SweepBeforeTrash ==
    /\ [](\A r \in Runs :
            /\ pc[r] = "trash" => NoZipIn(scratch)
            /\ error[r] = "TrashError" =>
                  /\ pc[r] = "failed"
                  /\ NoZipIn(scratch)
                  /\ ObjectKey(r) \in DOMAIN bucket
                  /\ bucket[ObjectKey(r)] = Zip(backup_folder_path[r])
                  /\ AtOriginalPath(backup_folder_path[r])
            /\ error[r] = "ArchiveError" =>
                  /\ pc[r] = "failed"
                  /\ puts[r] = <<>>
                  /\ \A i \in 1..Len(entries) : dir_state[i] = "original")
    /\ [][C10_ArchiveFailStep]_vars

\* trashing failed after a sweep that left only notes.txt
C10_Witness ==
    /\ error[1] = "TrashError"
    /\ DOMAIN scratch = {"notes.txt"}
    /\ DOMAIN bucket # {}

\* ---------------------------------------------------------------------- C9
C9_RaceStep ==
    \A r \in Runs :
        /\ (pc[r] = "make_archive" /\ pc'[r] = "upload") =>
              ArchiveName(r) \in DOMAIN scratch'
        /\ (pc[r] = "clean_list" /\ pc'[r] = "clean_remove") =>
              \A q \in Runs \ {r} :
                  (pc[q] = "upload" /\ ArchiveName(q) \in DOMAIN scratch) =>
                      \E k \in 1..Len(zip_files'[r]) : zip_files'[r][k] = ArchiveName(q)
        /\ (pc[r] = "upload" /\ ArchiveName(r) \in DOMAIN scratch
                /\ ArchiveName(r) \notin DOMAIN scratch') =>
              \E q \in Runs \ {r} :
                  /\ pc[q] = "clean_remove"
                  /\ zi[q] <= Len(zip_files[q])
                  /\ zip_files[q][zi[q]] = ArchiveName(r)
                  /\ zi'[q] = zi[q] + 1
        /\ (pc[r] = "upload" /\ pc'[r] # "upload"
                /\ ArchiveName(r) \notin DOMAIN scratch) =>
              /\ pc'[r] = "failed"
              /\ error'[r] = "UploadError"
              /\ puts'[r] = <<>>

\* C9: with two runs on one scratch directory, a run's archive is in the
\* scratch directory when the run reaches its upload; every sweep lists all
\* .zip names it finds, other runs' pending archives included; an archive
\* that vanishes before its upload was removed by a step of the other run's
\* sweep; and the upload of a vanished archive raises.
C9_SweepRace == [][C9_RaceStep]_vars

\* run 1 has archived and not yet uploaded, and its archive is gone while
\* run 2, which took a different backup name, is past its listing
C9_Witness ==
    /\ pc[1] = "upload"
    /\ ArchiveName(1) \notin DOMAIN scratch
    /\ pc[2] \in {"clean_remove", "trash", "done"}
    /\ backup_base_name[2] # backup_base_name[1]

====
